---- MODULE Spec2Model ----
(***************************************************************************)
(* Model of asgi.py: a FastAPI service that drives relays (local GPIO pin  *)
(* or remote HTTP switch), builds its device registries from config.yml at *)
(* import time, and forwards commands to an MPD player.                    *)
(*                                                                         *)
(* A Python dict is a function whose DOMAIN is its key set, so a missing   *)
(* key (KeyError) is a key outside DOMAIN.  The relay registry keeps the   *)
(* insertion order of the dict: it is a sequence of handles keyed by name. *)
(***************************************************************************)
EXTENDS Integers, Sequences, FiniteSets, TLC

VARIABLES
    pc,             \* "relays" | "sensors" | "serving" | "aborted"
    idx,            \* position in the config list being processed
    cfg,            \* parsed config.yml
    relays,         \* relay registry, in insertion order
    sensors,        \* sensor registry, in insertion order
    errlog,         \* logging.error records written while building registries
    gpio,           \* pin -> [mode, level]: the GPIO controller
    remote,         \* url -> BOOLEAN: the state of each remote switch
    mpc_connected,  \* the MPDClient holds a live connection
    last            \* the last request served (inputs, transport trace, response),
                    \* forgotten when a switch is operated from outside

vars == <<pc, idx, cfg, relays, sensors, errlog, gpio, remote, mpc_connected, last>>

(***************************************************************************)
(* Bounds                                                                  *)
(***************************************************************************)
MaxRelays == 2      \* longest relays list of a generated config
MaxSensors == 1     \* longest sensors list of a generated config
MaxCalls == 4       \* transport calls of one request that a script covers

(***************************************************************************)
(* The world outside the process                                           *)
(***************************************************************************)
Pins == {4}
ValidPins == {4}                \* channels GPIO.setup accepts
Urls == {"u1", "u2"}
\* what a requests call can end in.  "ConnectionError" stands for the class and
\* its subclasses (connection refused, ConnectTimeout); "ReadTimeout" is the
\* timeout=1 running out once connected, which is no ConnectionError
Outcomes == {"ok", "ConnectionError", "ReadTimeout"}
Failures == Outcomes \ {"ok"}

(***************************************************************************)
(* config.yml                                                              *)
(***************************************************************************)
Lamp == [name |-> "lamp", type |-> "GPIO", attrs |-> [pin |-> 4]]
Plug == [name |-> "plug", type |-> "WiFi", attrs |-> [url |-> "u1"]]
Heater == [name |-> "heater", type |-> "WiFi", attrs |-> [url |-> "u2"]]
FanNoName == [type |-> "WiFi", attrs |-> [url |-> "u2"]]
FanNoType == [name |-> "fan", attrs |-> [url |-> "u2"]]
FanNoAttrs == [name |-> "fan", type |-> "GPIO"]
FanNoPin == [name |-> "fan", type |-> "GPIO", attrs |-> [url |-> "u2"]]
FanBadPin == [name |-> "fan", type |-> "GPIO", attrs |-> [pin |-> 99]]
FanFoo == [name |-> "fan", type |-> "Foo", attrs |-> [url |-> "u2"]]

RelayPool == {Lamp, Plug, Heater, FanNoName, FanNoType, FanNoAttrs, FanNoPin, FanBadPin, FanFoo}

\* a sensor type tag is the list of its '_'-separated parts
Bme == [name |-> "bme", type |-> <<"I2C", "BME">>]
BmeCaps == [name |-> "bme", type |-> <<"I2C", "BME">>, capabilities |-> {"temperature"}]
SensNoName == [type |-> <<"I2C", "HTU">>]
SensNoType == [name |-> "out"]
SensBadBus == [name |-> "out", type |-> <<"SPI", "BME">>]
SensBadDriver == [name |-> "out", type |-> <<"I2C", "DHT">>]
SensNoSep == [name |-> "out", type |-> <<"I2CBME">>]

SensorPool == {Bme, BmeCaps, SensNoName, SensNoType, SensBadBus, SensBadDriver, SensNoSep}

Mpd == [host |-> "localhost", port |-> 6600]

NameOf(e) == IF "name" \in DOMAIN e THEN e["name"] ELSE "?"

\* lists of at most n entries of pool in which no name is used twice
RECURSIVE Lists(_, _)
Lists(pool, n) ==
    IF n = 0 THEN {<<>>}
    ELSE LET shorter == Lists(pool, n - 1)
         IN  shorter \cup
             {Append(l, e) : <<l, e>> \in
                 {p \in shorter \X pool :
                     /\ Len(p[1]) = n - 1
                     /\ \A i \in 1..Len(p[1]) : NameOf(p[1][i]) /= NameOf(p[2])}}

GeneratedCfgs ==
    {[relays |-> r, sensors |-> s, mpd |-> Mpd] :
        r \in Lists(RelayPool, MaxRelays), s \in Lists(SensorPool, MaxSensors)}

ServingCfgs ==
    {[relays |-> r, sensors |-> <<Bme>>, mpd |-> Mpd] :
        r \in {<<Lamp, Plug>>, <<Plug, Heater>>, <<FanFoo, Lamp>>}}

(***************************************************************************)
(* Registries: dicts kept in insertion order                               *)
(***************************************************************************)
Keys(reg) == {reg[i].name : i \in 1..Len(reg)}

Lookup(reg, n) == reg[CHOOSE i \in 1..Len(reg) : reg[i].name = n]

\* reg[n] = h: a new key is appended, an existing key keeps its place
Store(reg, h) ==
    IF h.name \in Keys(reg)
    THEN [i \in 1..Len(reg) |-> IF reg[i].name = h.name THEN h ELSE reg[i]]
    ELSE Append(reg, h)

(***************************************************************************)
(* Relay.__init__                                                          *)
(***************************************************************************)
\* TRUE when Relay(r['type'], r['attrs']) raises (KeyError on the entry, or
\* GPIO.setup on a missing or invalid channel)
RelayCtorRaises(r) ==
    \/ "type" \notin DOMAIN r
    \/ "attrs" \notin DOMAIN r
    \/ /\ r["type"] = "GPIO"
       /\ \/ "pin" \notin DOMAIN r["attrs"]
          \/ r["attrs"]["pin"] \notin ValidPins

RelayHandle(r) == [name |-> r["name"], type |-> r["type"], attrs |-> r["attrs"]]

GpioSetup(g, r) ==
    IF r["type"] = "GPIO"
    THEN [g EXCEPT ![r["attrs"]["pin"]].mode = "OUT"]
    ELSE g

(***************************************************************************)
(* Sensor.__init__                                                         *)
(***************************************************************************)
SensorInitRaises(s, present) ==
    \/ "type" \notin DOMAIN s
    \/ Len(s["type"]) /= 2
    \/ ~(s["type"][1] = "I2C" /\ s["type"][2] \in {"BME", "HTU", "SHT"})
    \/ ~present
    \/ "name" \notin DOMAIN s

SensorHandle(s) ==
    [name |-> s["name"],
     driver |-> s["type"][2],
     capabilities |-> IF "capabilities" \in DOMAIN s THEN s["capabilities"] ELSE {}]

(***************************************************************************)
(* Transports.  A request runs against a world w = [gpio, remote, io,      *)
(* calls, flipped]; io is the trace of transport calls made so far and     *)
(* calls the Relay methods that have returned.  A script sc says how the   *)
(* outside behaves during the request: out[k] is what the k-th transport   *)
(* call ends in, flipAt the call just before which somebody operates the   *)
(* addressed switch by hand (0: nobody), applied whether a PUT whose       *)
(* answer timed out was nevertheless carried out by the switch.            *)
(***************************************************************************)
IntOf(b) == IF b THEN 1 ELSE 0

BoolOf(i) == i /= 0

Event(op, pin, target, arg, val, out) ==
    [op |-> op, pin |-> pin, target |-> target, arg |-> arg, val |-> val, out |-> out]

World(g, rem) == [gpio |-> g, remote |-> rem, io |-> <<>>, calls |-> <<>>, flipped |-> FALSE]

OutcomeAt(sc, k) == IF k \in DOMAIN sc.out THEN sc.out[k] ELSE "ok"

Outside(w, sc, url) ==
    IF sc.flipAt = Len(w.io) + 1
    THEN [w EXCEPT !.remote[url] = ~@, !.flipped = TRUE]
    ELSE w

\* GPIO.input(pin)
GpioInput(w, pin) ==
    [w |-> [w EXCEPT !.io = Append(@, Event("input", pin, "", "", w.gpio[pin].level, "ok"))],
     val |-> w.gpio[pin].level]

\* GPIO.output(pin, level)
GpioOutput(w, pin, level) ==
    [w EXCEPT !.gpio[pin].level = level,
              !.io = Append(@, Event("output", pin, "", "", level, "ok"))]

\* the switch answers a GET with its state
Got(w1, url, out) ==
    [w |-> [w1 EXCEPT !.io = Append(@, Event("GET", 0, url, "", IntOf(w1.remote[url]), out))],
     out |-> out, val |-> IntOf(w1.remote[url])]

\* requests.get(url, timeout=1) and the 'state' field of its JSON body
RequestsGet(w, sc, url) == Got(Outside(w, sc, url), url, OutcomeAt(sc, Len(w.io) + 1))

\* the switch carries a PUT out when it answers, and may have when it timed out
Put(w1, url, data, out, applied) ==
    [w |-> [w1 EXCEPT !.remote[url] = IF out = "ok" \/ (out = "ReadTimeout" /\ applied)
                                      THEN BoolOf(data) ELSE @,
                      !.io = Append(@, Event("PUT", 0, url, "", data, out))],
     out |-> out]

\* requests.put(url, timeout=1, data={'state': data})
RequestsPut(w, sc, url, data) ==
    Put(Outside(w, sc, url), url, data, OutcomeAt(sc, Len(w.io) + 1), sc.applied)

\* except requests.exceptions.ConnectionError
IsConnectionError(out) == out = "ConnectionError"

\* the exception a requests call leaves the Relay method with
RaisedBy(out) ==
    IF out = "ok" THEN "none"
    ELSE IF IsConnectionError(out) THEN "UnavailableError"
    ELSE out

(***************************************************************************)
(* class Relay                                                             *)
(***************************************************************************)
\* the record of a finished method call: its transport calls are io[lo..hi]
Returned(w0, r, method, arg) ==
    [r EXCEPT !.w.calls = Append(@, [method |-> method, arg |-> arg,
                                     lo |-> Len(w0.io) + 1, hi |-> Len(r.w.io),
                                     exc |-> r.exc, val |-> r.val])]

\* what a method leaves: the world, the exception raised ("none": it returned)
\* and the value returned
Result(w, exc, val) == [w |-> w, exc |-> exc, val |-> val]

\* variant: the raw level taken for the logical state
StateFromPin_Raw(r) == Result(r.w, "none", BoolOf(r.val))

\* res = not bool(GPIO.input(pin))
StateFromPin(r) == Result(r.w, "none", ~BoolOf(r.val))

\* res = bool(res.json()['state']), or the exception of the GET
StateFromGet(r) == Result(r.w, RaisedBy(r.out), r.out = "ok" /\ BoolOf(r.val))

Relay_get_state(h, w, sc) ==
    Returned(w,
        IF h.type = "GPIO" THEN StateFromPin(GpioInput(w, h.attrs["pin"]))
        ELSE IF h.type = "WiFi"
        THEN IF "url" \notin DOMAIN h.attrs THEN Result(w, "KeyError", FALSE)
             ELSE StateFromGet(RequestsGet(w, sc, h.attrs["url"]))
        \* neither branch binds res
        ELSE Result(w, "UnboundLocalError", FALSE),
        "get_state", FALSE)

AfterPut(r) == Result(r.w, RaisedBy(r.out), FALSE)

\* variant: set_state without the "nothing to change" return
WriteAlways(h, state, g, sc) ==
    IF g.exc /= "none" THEN Result(g.w, g.exc, FALSE)
    ELSE IF h.type = "GPIO"
    THEN Result(GpioOutput(g.w, h.attrs["pin"], IntOf(~state)), "none", FALSE)
    ELSE IF h.type = "WiFi"
    THEN AfterPut(RequestsPut(g.w, sc, h.attrs["url"], IntOf(state)))
    ELSE Result(g.w, "none", FALSE)

\* set_state once its get_state() has ended as g
WriteIfChanged(h, state, g, sc) ==
    IF g.exc /= "none" THEN Result(g.w, g.exc, FALSE)
    \* skip if nothing to change
    ELSE IF g.val = state THEN Result(g.w, "none", FALSE)
    ELSE IF h.type = "GPIO"
    THEN Result(GpioOutput(g.w, h.attrs["pin"], IntOf(~state)), "none", FALSE)
    ELSE IF h.type = "WiFi"
    THEN AfterPut(RequestsPut(g.w, sc, h.attrs["url"], IntOf(state)))
    ELSE Result(g.w, "none", FALSE)

Relay_set_state(h, state, w, sc) ==
    Returned(w, WriteIfChanged(h, state, Relay_get_state(h, w, sc), sc), "set_state", state)

\* variant: toggle sets the state it has read
SetSame(h, g, sc) ==
    IF g.exc /= "none" THEN Result(g.w, g.exc, FALSE)
    ELSE Relay_set_state(h, g.val, g.w, sc)

\* variant: toggle switches on whatever it has read
SetOn(h, g, sc) ==
    IF g.exc /= "none" THEN Result(g.w, g.exc, FALSE)
    ELSE Relay_set_state(h, TRUE, g.w, sc)

\* toggle once its own get_state() has ended as g
SetNegated(h, g, sc) ==
    IF g.exc /= "none" THEN Result(g.w, g.exc, FALSE)
    ELSE Relay_set_state(h, ~g.val, g.w, sc)

Relay_toggle(h, w, sc) ==
    Returned(w, SetNegated(h, Relay_get_state(h, w, sc), sc), "toggle", FALSE)

Relay_info(h, w, sc) ==
    Returned(w, Relay_get_state(h, w, sc), "info", FALSE)

\* the record info() returns, and the marker the listing puts in its place
InfoRecord(h, state) ==
    [name |-> h.name, kind |-> "info", type |-> h.type, attrs |-> h.attrs, state |-> state]

NotAvailable(h) == [name |-> h.name, kind |-> "N/A"]

(***************************************************************************)
(* Module import: the registries are built entry by entry                  *)
(***************************************************************************)
NoReq ==
    [route |-> "none", name |-> "", action |-> "", args |-> "", status |-> 0,
     exc |-> "none", detail |-> <<>>, io |-> <<>>, calls |-> <<>>, listing |-> <<>>,
     val |-> FALSE, wrapped |-> FALSE, flipped |-> FALSE, pre |-> FALSE,
     post |-> FALSE, repeat |-> FALSE, orig |-> FALSE, consulted |-> FALSE,
     was_connected |-> FALSE]

PhaseAfterRelays(c) == IF Len(c.sensors) = 0 THEN "serving" ELSE "sensors"

InitWith(cfgs) ==
    /\ cfg \in cfgs
    /\ pc = IF Len(cfg.relays) > 0 THEN "relays" ELSE PhaseAfterRelays(cfg)
    /\ idx = 1
    /\ relays = <<>>
    /\ sensors = <<>>
    /\ errlog = <<>>
    /\ gpio \in [Pins -> [mode : {"IN"}, level : {0, 1}]]
    /\ remote \in [Urls -> BOOLEAN]
    /\ mpc_connected = FALSE
    /\ last = NoReq

Init == InitWith(ServingCfgs)

InitGenerated == InitWith(GeneratedCfgs)

\* one iteration of "for r in cfg['relays']": the right-hand side is evaluated
\* first, then the key r['name'], all inside the try
InitRelay ==
    /\ pc = "relays"
    /\ LET r == cfg.relays[idx]
           done == idx = Len(cfg.relays)
           built == ~RelayCtorRaises(r)
           raised == ~built \/ "name" \notin DOMAIN r
       IN  /\ gpio' = IF built THEN GpioSetup(gpio, r) ELSE gpio
           /\ relays' = IF raised THEN relays ELSE Store(relays, RelayHandle(r))
           /\ IF raised /\ "name" \notin DOMAIN r
              \* the except block reads r['name'] itself: KeyError leaves the import
              THEN /\ pc' = "aborted"
                   /\ idx' = idx
                   /\ errlog' = errlog
              ELSE /\ pc' = IF done THEN PhaseAfterRelays(cfg) ELSE "relays"
                   /\ idx' = IF done THEN 1 ELSE idx + 1
                   /\ errlog' = IF raised THEN Append(errlog, <<"relay", r["name"]>>)
                                          ELSE errlog
    /\ UNCHANGED <<cfg, sensors, remote, mpc_connected, last>>

\* one iteration of "for s in cfg['sensors']"; present: a device answers on the bus
InitSensor ==
    /\ pc = "sensors"
    /\ \E present \in BOOLEAN :
        LET s == cfg.sensors[idx]
            done == idx = Len(cfg.sensors)
            raised == SensorInitRaises(s, present)
        IN  /\ sensors' = IF raised THEN sensors ELSE Store(sensors, SensorHandle(s))
            /\ IF raised /\ "name" \notin DOMAIN s
               THEN /\ pc' = "aborted"
                    /\ idx' = idx
                    /\ errlog' = errlog
               ELSE /\ pc' = IF done THEN "serving" ELSE "sensors"
                    /\ idx' = IF done THEN 1 ELSE idx + 1
                    /\ errlog' = IF raised THEN Append(errlog, <<"sensor", s["name"]>>)
                                           ELSE errlog
    /\ UNCHANGED <<cfg, relays, gpio, remote, mpc_connected, last>>

(***************************************************************************)
(* Scripts of the outside world for one request                            *)
(***************************************************************************)
NoScript == [out |-> <<>>, flipAt |-> 0, applied |-> FALSE]

\* an exception ends a relay request, so at most one of its calls fails
OneFailure(n) ==
    {[k \in 1..n |-> "ok"]} \cup
    {[k \in 1..n |-> IF k = f THEN o ELSE "ok"] : f \in 1..n, o \in Failures}

\* the scripts for a request that makes at most n calls on relay h.  A switch
\* operated before the first call is a switch operated before the request.
RelayScripts(h, n) ==
    IF h.type /= "WiFi" THEN {NoScript}
    ELSE LET m == IF n < MaxCalls THEN n ELSE MaxCalls
         IN  {sc \in [out : OneFailure(m), flipAt : {0} \cup 2..m, applied : BOOLEAN] :
                 sc.applied => \E k \in 2..m : sc.out[k] = "ReadTimeout"}

\* the transport calls a relay action makes at most: toggle reads twice, writes
\* and the route reads again
CallsOf(action) == IF action = "toggle" THEN 4 ELSE IF action = "state" THEN 1 ELSE 3

\* the listing goes on after an unavailable relay: one outcome per relay
ListScripts(reg) ==
    {sc \in [out : [1..Len(reg) -> Outcomes], flipAt : {0}, applied : {FALSE}] :
        \A i \in 1..Len(reg) : reg[i].type /= "WiFi" => sc.out[i] = "ok"}

(***************************************************************************)
(* Route layer                                                             *)
(***************************************************************************)
Actions == {"on", "off", "toggle", "state"}
ReqNames == {"lamp", "plug", "heater", "fan", "ghost"}
ReqActions == Actions \cup {"bogus"}

\* exception handlers: UnavailableError -> 503, HTTPException -> its code,
\* a failed parameter check -> 422, anything else -> 500
StatusOf(exc, code) ==
    IF exc = "none" THEN 200
    ELSE IF exc = "UnavailableError" THEN 503
    ELSE IF exc = "HTTPException" THEN code
    ELSE IF exc = "RequestValidationError" THEN 422
    ELSE 500

\* RelayField.validate_relay_name
validate_relay_name(v, reg) ==
    IF v \notin Keys(reg) THEN "HTTPException" ELSE "none"

\* variant: a path parameter without its regex
AnyAction(action) == "none"

\* Path(regex=r'^(on|off|toggle|state)$')
validate_action(action) ==
    IF action \notin Actions THEN "RequestValidationError" ELSE "none"

\* variant: the action declared, and so checked, before the name
ActionFirst(name, action, reg) ==
    IF validate_action(action) /= "none"
    THEN [exc |-> "RequestValidationError", consulted |-> FALSE, code |-> 422]
    ELSE [exc |-> validate_relay_name(name, reg), consulted |-> TRUE, code |-> 404]

\* the path parameters are checked in the order the handler declares them;
\* the HTTPException of the name check leaves at once
ValidatePath(name, action, reg) ==
    LET n == validate_relay_name(name, reg)
    IN  IF n /= "none" THEN [exc |-> n, consulted |-> TRUE, code |-> 404]
        ELSE [exc |-> validate_action(action), consulted |-> TRUE, code |-> 422]

\* the logical state the device of handle h is really in
DeviceState(h, g, rem) ==
    IF h.type = "GPIO" THEN g[h.attrs["pin"]].level = 0
    ELSE IF h.type = "WiFi" /\ "url" \in DOMAIN h.attrs THEN rem[h.attrs["url"]]
    ELSE FALSE

ToggledOk(req) ==
    /\ req.route = "action"
    /\ req.action = "toggle"
    /\ \E i \in 1..Len(req.calls) : req.calls[i].method = "toggle" /\ req.calls[i].exc = "none"
    /\ ~req.flipped

\* res = relays[name].get_state(), unless the action raised
ReadBack(h, r, sc) == IF r.exc /= "none" THEN r ELSE Relay_get_state(h, r.w, sc)

\* body of relay_send_action
SendAction(h, action, w, sc) ==
    ReadBack(h,
        IF action = "toggle" THEN Relay_toggle(h, w, sc)
        ELSE IF action \in {"on", "off"} THEN Relay_set_state(h, action = "on", w, sc)
        ELSE Result(w, "none", FALSE),
        sc)

\* what a handler leaves behind: the request as served and the devices
Served(req, w) == [last |-> req, gpio |-> w.gpio, remote |-> w.remote]

Request(route, name, action) ==
    [NoReq EXCEPT !.route = route, !.name = name, !.action = action]

Rejected(req, exc, code) ==
    Served([req EXCEPT !.exc = exc, !.status = StatusOf(exc, code)], World(gpio, remote))

\* the response to a relay request whose handler ended as r
Answered(req, h, r) ==
    Served([req EXCEPT !.exc = r.exc, !.status = StatusOf(r.exc, 0),
                       !.io = r.w.io, !.calls = r.w.calls,
                       !.val = r.exc = "none" /\ r.val,
                       !.wrapped = r.exc = "none" /\ req.action \notin {"state", ""},
                       !.listing = IF r.exc = "none" /\ req.route = "info"
                                   THEN <<InfoRecord(h, r.val)>> ELSE <<>>,
                       !.flipped = r.w.flipped,
                       !.pre = DeviceState(h, gpio, remote),
                       !.post = DeviceState(h, r.w.gpio, r.w.remote)],
           r.w)

\* notes on a toggle request that it follows a toggle of the same relay
AfterToggle(res, before) ==
    [res EXCEPT !.last.repeat = /\ ToggledOk(res.last)
                                /\ ToggledOk(before)
                                /\ before.name = res.last.name,
                !.last.orig = ToggledOk(before) /\ before.pre]

ScriptsFor(name, n) ==
    IF name \in Keys(relays) THEN RelayScripts(Lookup(relays, name), n) ELSE {NoScript}

Consulted(req, v) == [req EXCEPT !.consulted = v.consulted]

AfterValidation(v, name, action, sc) ==
    IF v.exc /= "none"
    THEN Rejected(Consulted(Request("action", name, action), v), v.exc, v.code)
    ELSE AfterToggle(
            Answered(Consulted(Request("action", name, action), v), Lookup(relays, name),
                     SendAction(Lookup(relays, name), action, World(gpio, remote), sc)),
            last)

\* GET /api/relay/{name}/{action}
RelaySendAction(name, action, sc) ==
    AfterValidation(ValidatePath(name, action, relays), name, action, sc)

relay_send_action ==
    /\ pc = "serving"
    /\ \E name \in ReqNames, action \in ReqActions :
        \E sc \in ScriptsFor(name, IF action \in Actions THEN CallsOf(action) ELSE 0) :
            \E res \in {RelaySendAction(name, action, sc)} :
                /\ last' = res.last
                /\ gpio' = res.gpio
                /\ remote' = res.remote
    /\ UNCHANGED <<pc, idx, cfg, relays, sensors, errlog, mpc_connected>>

\* GET /api/relay/{name}
RelayGetInfo(name, sc) ==
    IF validate_relay_name(name, relays) /= "none"
    THEN Rejected([Request("info", name, "") EXCEPT !.consulted = TRUE], "HTTPException", 404)
    ELSE Answered([Request("info", name, "") EXCEPT !.consulted = TRUE], Lookup(relays, name),
                  Relay_info(Lookup(relays, name), World(gpio, remote), sc))

relay_get_info ==
    /\ pc = "serving"
    /\ \E name \in ReqNames :
        \E sc \in ScriptsFor(name, 1) :
            \E res \in {RelayGetInfo(name, sc)} :
                /\ last' = res.last
                /\ gpio' = res.gpio
                /\ remote' = res.remote
    /\ UNCHANGED <<pc, idx, cfg, relays, sensors, errlog, mpc_connected>>

\* the try block of relay_get_list for relay h, whose info() ended as r:
\* "go on" with the entry, or the exception that leaves the handler
ListEntry(h, r) ==
    IF r.exc = "none" THEN [w |-> r.w, exc |-> "none", entry |-> InfoRecord(h, r.val)]
    ELSE IF r.exc = "UnavailableError"
    THEN [w |-> r.w, exc |-> "none", entry |-> NotAvailable(h)]
    ELSE [w |-> r.w, exc |-> r.exc, entry |-> NotAvailable(h)]

\* "for n, r in relays.items()" from position i on
RECURSIVE ListFrom(_, _, _, _, _)
ListNext(reg, i, sc, res, e) ==
    IF e.exc /= "none" THEN Result(e.w, e.exc, <<>>)
    ELSE ListFrom(reg, i + 1, e.w, sc, Append(res, e.entry))

ListFrom(reg, i, w, sc, res) ==
    IF i > Len(reg) THEN Result(w, "none", res)
    ELSE ListNext(reg, i, sc, res, ListEntry(reg[i], Relay_info(reg[i], w, sc)))

ListAnswered(r) ==
    Served([NoReq EXCEPT !.route = "list", !.exc = r.exc, !.status = StatusOf(r.exc, 0),
                         !.io = r.w.io, !.calls = r.w.calls, !.listing = r.val],
           r.w)

\* GET /api/relay
RelayGetList(sc) == ListAnswered(ListFrom(relays, 1, World(gpio, remote), sc, <<>>))

relay_get_list ==
    /\ pc = "serving"
    /\ \E sc \in ListScripts(relays) :
        \E res \in {RelayGetList(sc)} :
            /\ last' = res.last
            /\ gpio' = res.gpio
            /\ remote' = res.remote
    /\ UNCHANGED <<pc, idx, cfg, relays, sensors, errlog, mpc_connected>>

(***************************************************************************)
(* Media pass-through                                                      *)
(***************************************************************************)
Advertised == {"play", "status"}        \* what the player answers to commands()
MpcActions == Advertised \cup {"bogus"}
MpcArgs == {"", "1"}
ExecOutcomes == {"ok", "CommandError", "ConnectionError"}

\* mpc.ping(): MPDConnectionError unless the connection is alive
MpcPing(connected, up) == IF connected /\ up THEN "ok" ELSE "ConnectionError"

\* mpc.connect(host, port), made exactly when the ping raised
ConnectIfDown(ping, up, mpd) ==
    IF ping = "ok"
    THEN [io |-> <<Event("ping", 0, "", "", 0, ping)>>, exc |-> "none", connected |-> TRUE]
    ELSE [io |-> <<Event("ping", 0, "", "", 0, ping),
                   Event("connect", 0, mpd.host, "", mpd.port,
                         IF up THEN "ok" ELSE "ConnectionRefusedError")>>,
          exc |-> IF up THEN "none" ELSE "ConnectionRefusedError",
          connected |-> up]

\* the "check connection" block
CheckConnection(connected, up, mpd) == ConnectIfDown(MpcPing(connected, up), up, mpd)

MpcAnswer(req, io, exc, code, detail, connected) ==
    [last |-> [req EXCEPT !.io = io, !.exc = exc, !.status = StatusOf(exc, code),
                          !.detail = detail],
     connected |-> connected]

\* "send command to mpd": eval(f'mpc.{action}({args})') ended in out
Execute(req, c, out) ==
    IF out /= "ok"
    THEN MpcAnswer(req, Append(c.io, Event("command", 0, req.action, req.args, 0, out)),
                   "HTTPException", 500, <<"Failed to exec", req.action, out>>,
                   out /= "ConnectionError")
    ELSE MpcAnswer(req, Append(c.io, Event("command", 0, req.action, req.args, 0, out)),
                   "none", 0, <<>>, c.connected)

\* variant: the command forwarded without the lookup in mpc.commands()
Unvalidated(req, c, out) == Execute(req, c, out)

\* "validate action": the name is looked up in mpc.commands()
ValidateCommand(req, c, out) ==
    IF req.action \notin Advertised
    THEN MpcAnswer(req, Append(c.io, Event("commands", 0, "", "", 0, "ok")),
                   "HTTPException", 422, <<"Wrong mpc command">>, c.connected)
    ELSE Execute(req, [c EXCEPT !.io = Append(@, Event("commands", 0, "", "", 0, "ok"))], out)

AfterCheck(req, c, out) ==
    IF c.exc /= "none" THEN MpcAnswer(req, c.io, c.exc, 0, <<>>, c.connected)
    ELSE ValidateCommand(req, c, out)

\* GET /api/mpc/{action}?args=...; up: the player is reachable, out: what running
\* the command ends in
MpcSendCommand(action, args, up, out) ==
    AfterCheck([NoReq EXCEPT !.route = "mpc", !.action = action, !.args = args,
                             !.was_connected = mpc_connected],
               CheckConnection(mpc_connected, up, cfg.mpd), out)

mpc_send_command ==
    /\ pc = "serving"
    /\ \E action \in MpcActions, args \in MpcArgs, up \in BOOLEAN, out \in ExecOutcomes :
        \E res \in {MpcSendCommand(action, args, up, out)} :
            /\ last' = res.last
            /\ mpc_connected' = res.connected
    /\ UNCHANGED <<pc, idx, cfg, relays, sensors, errlog, gpio, remote>>

\* the player closes an idle connection
ConnectionLost ==
    /\ pc = "serving"
    /\ mpc_connected
    /\ mpc_connected' = FALSE
    /\ UNCHANGED <<pc, idx, cfg, relays, sensors, errlog, gpio, remote, last>>

\* somebody operates a remote switch by hand between two requests
ExternalSwitch ==
    /\ pc = "serving"
    /\ \E url \in Urls : remote' = [remote EXCEPT ![url] = ~@]
    /\ last' = NoReq
    /\ UNCHANGED <<pc, idx, cfg, relays, sensors, errlog, gpio, mpc_connected>>

NextStartup == InitRelay \/ InitSensor

SpecStartup == InitGenerated /\ [][NextStartup]_vars

Next ==
    \/ InitRelay
    \/ InitSensor
    \/ relay_get_list
    \/ relay_get_info
    \/ relay_send_action
    \/ mpc_send_command
    \/ ExternalSwitch
    \/ ConnectionLost

Spec == Init /\ [][Next]_vars

(***************************************************************************)
(* Properties                                                              *)
(***************************************************************************)
IsRead(e) == e.op \in {"input", "GET"}

IsWrite(e) == e.op \in {"output", "PUT"}

\* the logical state a transport call carries: a pin level is active-low
Logical(e) == IF e.op \in {"input", "output"} THEN e.val = 0 ELSE e.val /= 0

ReadsIn(req, lo, hi) == {k \in lo..hi : IsRead(req.io[k])}

WritesIn(req, lo, hi) == {k \in lo..hi : IsWrite(req.io[k])}

CallsTo(req, methods) == {i \in 1..Len(req.calls) : req.calls[i].method \in methods}

\* C1: a set_state(s) whose read-before-write finds the state s makes no
\* transport write; one that finds the other state makes exactly one write,
\* right after the read, to the same device and carrying s.
C1_SetStateWrites ==
    \A i \in CallsTo(last, {"set_state"}) :
        LET c == last.calls[i]
        IN  (c.lo <= c.hi /\ last.io[c.lo].out = "ok") =>
                /\ IsRead(last.io[c.lo])
                /\ IF Logical(last.io[c.lo]) = c.arg
                   THEN c.hi = c.lo /\ WritesIn(last, c.lo, c.hi) = {}
                   ELSE /\ c.hi = c.lo + 1
                        /\ WritesIn(last, c.lo, c.hi) = {c.hi}
                        /\ Logical(last.io[c.hi]) = c.arg
                        /\ last.io[c.hi].pin = last.io[c.lo].pin
                        /\ last.io[c.hi].target = last.io[c.lo].target

\* a set_state on a remote switch that is already in the state asked for
C1_Witness ==
    \E i \in CallsTo(last, {"set_state"}) :
        /\ last.action \in {"on", "off"}
        /\ last.calls[i].lo = last.calls[i].hi
        /\ last.calls[i].exc = "none"
        /\ last.io[last.calls[i].lo].op = "GET"
        /\ Logical(last.io[last.calls[i].lo]) = last.calls[i].arg

\* C2: on a pin relay, the get_state() that follows set_state(s) returns s,
\* and the pin is then at the inverse level: 0 for on, 1 for off.
C2_PinRoundTrip ==
    (/\ last.route = "action"
     /\ last.action \in {"on", "off"}
     /\ last.name \in Keys(relays)
     /\ Lookup(relays, last.name).type = "GPIO") =>
        /\ last.status = 200
        /\ Len(last.calls) = 3
        /\ last.calls[2].method = "set_state"
        /\ last.calls[2].arg = (last.action = "on")
        /\ last.calls[3].method = "get_state"
        /\ last.calls[3].val = (last.action = "on")
        /\ last.val = (last.action = "on")
        /\ gpio[Lookup(relays, last.name).attrs["pin"]].level
               = IF last.action = "on" THEN 0 ELSE 1

\* a pin relay switched off by a request that had to drive the pin
C2_Witness ==
    /\ last.route = "action"
    /\ last.action = "off"
    /\ last.status = 200
    /\ \E k \in 1..Len(last.io) : last.io[k].op = "output" /\ last.io[k].val = 1
    /\ ~last.val

\* C3 as claimed: a toggle() that returns has made exactly one transport read
\* and then exactly one transport write, of the negation of what it read.
C3_OneReadOneWrite ==
    \A i \in CallsTo(last, {"toggle"}) :
        LET c == last.calls[i]
        IN  (c.exc = "none" /\ ~last.flipped) =>
                /\ Cardinality(ReadsIn(last, c.lo, c.hi)) = 1
                /\ Cardinality(WritesIn(last, c.lo, c.hi)) = 1
                /\ IsRead(last.io[c.lo])
                /\ IsWrite(last.io[c.hi])
                /\ Logical(last.io[c.hi]) = ~Logical(last.io[c.lo])

\* C3 as the code has it: toggle() reads twice, once itself and once in the
\* set_state it calls, and nothing else; when both reads succeed and agree it
\* then writes the negated state exactly once, and when the second read
\* already shows the negated state it writes nothing.
C3_TwoReadsOneWrite ==
    \A i \in CallsTo(last, {"toggle"}) :
        LET c == last.calls[i]
        IN  /\ ReadsIn(last, c.lo, c.hi) \subseteq {c.lo, c.lo + 1}
            /\ WritesIn(last, c.lo, c.hi) \subseteq {c.lo + 2}
            /\ c.hi <= c.lo + 2
            /\ c.exc = "none" =>
                /\ ReadsIn(last, c.lo, c.hi) = {c.lo, c.lo + 1}
                /\ Cardinality(CallsTo(last, {"set_state"})) = 1
                /\ IF Logical(last.io[c.lo]) = Logical(last.io[c.lo + 1])
                   THEN /\ WritesIn(last, c.lo, c.hi) = {c.lo + 2}
                        /\ Logical(last.io[c.lo + 2]) = ~Logical(last.io[c.lo])
                   ELSE WritesIn(last, c.lo, c.hi) = {}

\* a toggle of a remote switch: two GETs that agree, then the PUT
C3_Witness ==
    \E i \in CallsTo(last, {"toggle"}) :
        /\ last.calls[i].exc = "none"
        /\ last.calls[i].hi = last.calls[i].lo + 2
        /\ last.io[last.calls[i].lo].op = "GET"
        /\ last.io[last.calls[i].lo + 1].op = "GET"
        /\ last.io[last.calls[i].lo + 2].op = "PUT"

\* C4: two toggles of the same relay in a row, both carried out and with
\* nobody else operating the device, leave it in the state it had before
\* the first.
C4_ToggleTwice == last.repeat => last.post = last.orig

\* the second of two toggles of a remote switch
C4_Witness == last.repeat /\ last.io[1].op = "GET" /\ last.status = 200

\* C5: on a remote switch, a get_state or set_state one of whose transport
\* calls fails (connection refused, or the timeout running out) raises
\* UnavailableError, and a set_state whose read fails attempts no write.
C5_UnreachableIsUnavailable ==
    \A i \in CallsTo(last, {"get_state", "set_state"}) :
        LET c == last.calls[i]
        IN  (\E k \in c.lo..c.hi : last.io[k].out /= "ok") =>
                /\ c.exc = "UnavailableError"
                /\ last.io[c.lo].out /= "ok" => WritesIn(last, c.lo, c.hi) = {}

\* C6: a relay request for a name that is not in the registry is answered
\* 404, whatever its action, and touches no device.
C6_UnknownName404 ==
    (last.route \in {"action", "info"} /\ last.name \notin Keys(relays)) =>
        /\ last.status = 404
        /\ last.io = <<>>
        /\ last.calls = <<>>

\* an unknown name together with an action outside the vocabulary
C6_Witness ==
    /\ last.route = "action"
    /\ last.name \notin Keys(relays)
    /\ last.action \notin Actions
    /\ last.status = 404

C8_ListingSurvives ==
    (/\ last.route = "list"
     /\ \A i \in 1..Len(relays) : relays[i].type \in {"GPIO", "WiFi"}) =>
        /\ last.status = 200
        /\ Len(last.listing) = Len(relays)
        /\ Len(last.io) = Len(relays)
        /\ \A i \in 1..Len(relays) :
            /\ last.listing[i].name = relays[i].name
            /\ last.listing[i].kind = IF last.io[i].out /= "ok" THEN "N/A" ELSE "info"

WellConfiguredRelay(r) ==
    /\ {"name", "type", "attrs"} \subseteq DOMAIN r
    /\ r["type"] \in {"GPIO", "WiFi"}
    /\ r["type"] = "GPIO" => "pin" \in DOMAIN r["attrs"] /\ r["attrs"]["pin"] \in ValidPins
    /\ r["type"] = "WiFi" => "url" \in DOMAIN r["attrs"]

WellConfiguredSensor(e) ==
    /\ {"name", "type"} \subseteq DOMAIN e
    /\ Len(e["type"]) = 2
    /\ e["type"][1] = "I2C"
    /\ e["type"][2] \in {"BME", "HTU", "SHT"}

Logged(kind, e) ==
    "name" \in DOMAIN e /\ \E i \in 1..Len(errlog) : errlog[i] = <<kind, e["name"]>>

Registered(reg, e) == "name" \in DOMAIN e /\ e["name"] \in Keys(reg)

\* C9: building the registries never aborts; once it is over, every
\* misconfigured entry has been logged and is in no registry, every
\* well-configured relay is registered, and every well-configured sensor is
\* registered unless it was logged as failing.
C9_StartupSurvives ==
    /\ pc /= "aborted"
    /\ pc = "serving" =>
        /\ \A i \in 1..Len(cfg.relays) :
            IF WellConfiguredRelay(cfg.relays[i])
            THEN Registered(relays, cfg.relays[i])
            ELSE ~Registered(relays, cfg.relays[i]) /\ Logged("relay", cfg.relays[i])
        /\ \A i \in 1..Len(cfg.sensors) :
            IF WellConfiguredSensor(cfg.sensors[i])
            THEN Registered(sensors, cfg.sensors[i]) /= Logged("sensor", cfg.sensors[i])
            ELSE ~Registered(sensors, cfg.sensors[i]) /\ Logged("sensor", cfg.sensors[i])

Ops(req, op) == {k \in 1..Len(req.io) : req.io[k].op = op}

====
